---- MODULE Spec2Model ----
(***************************************************************************)
(* Model of KoboData_2RepInfCampo.py: the flattening of survey records     *)
(* into a Main table and child tables, the employee-list expansion, the    *)
(* local export and the incremental synchronisation to the spreadsheet.    *)
(*                                                                         *)
(* Text (column names, sheet names, string cells) is a sequence of         *)
(* one-character strings, so that splitting, trimming, substring tests,    *)
(* sanitising and JSON encoding are computed character by character.       *)
(* A value is a tagged record: int, str, nan (missing / None), list, dict. *)
(* A dict is a sequence of <<key, value>> pairs in insertion order.        *)
(* A DataFrame is [cols, rows]: the column names in order and the rows,    *)
(* each a sequence of values aligned with cols.                            *)
(*                                                                         *)
(* The spreadsheet is a function from worksheet title to a grid (header    *)
(* row, then data rows).  append_rows writes cells by position;            *)
(* get_all_records reads them back under the header row.  A cell reads     *)
(* back as it was written: the numeric conversions of the sheet and of     *)
(* pandas columns with missing values are outside the model.  Any store    *)
(* call may raise; to_excel on a list or dict cell may raise or not.  A    *)
(* run ended by an exception ends the modelled history.                    *)
(***************************************************************************)
EXTENDS Integers, Sequences, FiniteSets, TLC

(* ------------------------------ values -------------------------------- *)

VInt(n) == [t |-> "int", n |-> n]
VStr(s) == [t |-> "str", s |-> s]
VNaN == [t |-> "nan"]
VList(xs) == [t |-> "list", xs |-> xs]
VDict(kv) == [t |-> "dict", kv |-> kv]

EmptyStr == VStr(<<>>)

\* isinstance(x, (list, dict))
IsNested(v) == v.t \in {"list", "dict"}

\* pd.isna(x) for a scalar
IsNa(v) == v.t = "nan"

(* ------------------------------- text --------------------------------- *)

DigitChars == <<"0", "1", "2", "3", "4", "5", "6", "7", "8", "9">>

RECURSIVE Digits(_)
\* str(n) for an integer n
Digits(n) ==
    IF n < 0 THEN <<"-">> \o Digits(0 - n)
    ELSE IF n < 10 THEN <<DigitChars[n + 1]>>
    ELSE Digits(n \div 10) \o <<DigitChars[(n % 10) + 1]>>

\* the characters Python's str.strip() and the regex class \s remove
Whitespace == {" ", "\t", "\n", "\r", "\f"}

RECURSIVE LStrip(_)
LStrip(s) ==
    IF s # <<>> /\ Head(s) \in Whitespace THEN LStrip(Tail(s)) ELSE s

RECURSIVE RStrip(_)
RStrip(s) ==
    IF s # <<>> /\ s[Len(s)] \in Whitespace
    THEN RStrip(SubSeq(s, 1, Len(s) - 1))
    ELSE s

\* emp.strip()
Strip(s) == RStrip(LStrip(s))

\* c in s, for a character c
HasChar(s, c) == \E i \in 1..Len(s) : s[i] = c

RECURSIVE SplitOn(_, _)
\* s.split(c): the pieces between the occurrences of c, empty pieces kept
SplitOn(s, c) ==
    IF ~HasChar(s, c) THEN <<s>>
    ELSE LET i == CHOOSE k \in 1..Len(s) :
                     s[k] = c /\ \A m \in 1..(k - 1) : s[m] # c
         IN <<SubSeq(s, 1, i - 1)>> \o SplitOn(SubSeq(s, i + 1, Len(s)), c)

\* sub in s, for strings
Contains(s, sub) ==
    \E i \in 0..(Len(s) - Len(sub)) : SubSeq(s, i + 1, i + Len(sub)) = sub

RECURSIVE Join(_, _)
\* sep.join(parts)
Join(parts, sep) ==
    IF parts = <<>> THEN <<>>
    ELSE IF Len(parts) = 1 THEN parts[1]
    ELSE parts[1] \o sep \o Join(Tail(parts), sep)

RECURSIVE Concat(_)
\* the concatenation of a sequence of sequences
Concat(ss) == IF ss = <<>> THEN <<>> ELSE Head(ss) \o Concat(Tail(ss))

\* the subsequence of s at the indices satisfying keep, in order
RECURSIVE FilterIdx(_, _, _)
FilterIdx(s, keep, i) ==
    IF i > Len(s) THEN <<>>
    ELSE (IF keep[i] THEN <<s[i]>> ELSE <<>>) \o FilterIdx(s, keep, i + 1)

\* the position of x in s, 0 when absent
IndexOf(s, x) ==
    IF \E i \in 1..Len(s) : s[i] = x
    THEN CHOOSE i \in 1..Len(s) : s[i] = x /\ \A m \in 1..(i - 1) : s[m] # x
    ELSE 0

InSeq(s, x) == IndexOf(s, x) # 0

(* --------------------------- names in the code ------------------------- *)

N_id == <<"_", "i", "d">>
N_submission_id ==
    <<"s", "u", "b", "m", "i", "s", "s", "i", "o", "n", "_", "i", "d">>
N_parent_id == <<"p", "a", "r", "e", "n", "t", "_", "i", "d">>
N_item_index == <<"i", "t", "e", "m", "_", "i", "n", "d", "e", "x">>
N_value == <<"v", "a", "l", "u", "e">>
N_Main == <<"M", "a", "i", "n">>
N_sheet == <<"s", "h", "e", "e", "t">>

K_TiqueteCajon ==
    <<"T", "i", "q", "u", "e", "t", "e", "C", "a", "j", "o", "n">>
K_TiqueteCable ==
    <<"T", "i", "q", "u", "e", "t", "e", "C", "a", "b", "l", "e">>
K_OperariosCosecha ==
    <<"O", "p", "e", "r", "a", "r", "i", "o", "s",
      "C", "o", "s", "e", "c", "h", "a">>

\* employee_keywords
employee_keywords == <<K_TiqueteCajon, K_TiqueteCable, K_OperariosCosecha>>

\* maxlen of the local export's sheet names
ExcelMaxLen == 31
\* maxlen of the store's sheet names
SheetsMaxLen == 100

(* ----------------------------- utilities ------------------------------ *)

InvalidSheetChars == {"/", "\\", "?", "*", "[", "]", ":"}

RECURSIVE CollapseWs(_)
\* re.sub(r"\s+", "_", s)
CollapseWs(s) ==
    IF s = <<>> THEN <<>>
    ELSE IF Head(s) \in Whitespace
         THEN <<"_">> \o CollapseWs(LStrip(s))
         ELSE <<Head(s)>> \o CollapseWs(Tail(s))

sanitize_sheet_name(name, maxlen) ==
    LET n0 == IF name = <<>> THEN N_sheet ELSE name
        cleaned == [i \in 1..Len(n0) |->
                       IF n0[i] \in InvalidSheetChars THEN "_" ELSE n0[i]]
        collapsed == CollapseWs(cleaned)
    IN SubSeq(collapsed, 1, IF Len(collapsed) < maxlen THEN Len(collapsed)
                            ELSE maxlen)

\* the JSON escape of one character inside a string literal
JsonChar(c) ==
    CASE c = "\"" -> <<"\\", "\"">>
      [] c = "\\" -> <<"\\", "\\">>
      [] c = "\t" -> <<"\\", "t">>
      [] c = "\n" -> <<"\\", "n">>
      [] c = "\r" -> <<"\\", "r">>
      [] c = "\f" -> <<"\\", "f">>
      [] OTHER -> <<c>>

JsonString(s) ==
    <<"\"">> \o Concat([i \in 1..Len(s) |-> JsonChar(s[i])]) \o <<"\"">>

RECURSIVE Dumps(_)
\* json.dumps(value, ensure_ascii=False)
Dumps(v) ==
    CASE v.t = "int" -> Digits(v.n)
      [] v.t = "str" -> JsonString(v.s)
      [] v.t = "nan" -> <<"n", "u", "l", "l">>
      [] v.t = "list" ->
            <<"[">> \o Join([i \in 1..Len(v.xs) |-> Dumps(v.xs[i])],
                            <<",", " ">>) \o <<"]">>
      [] v.t = "dict" ->
            <<"{">> \o Join([i \in 1..Len(v.kv) |->
                                JsonString(v.kv[i][1]) \o <<":", " ">>
                                \o Dumps(v.kv[i][2])],
                            <<",", " ">>) \o <<"}">>

\* str(x), as Series.astype(str) applies it to a cell
PyStr(v) ==
    CASE v.t = "int" -> Digits(v.n)
      [] v.t = "str" -> v.s
      [] v.t = "nan" -> <<"n", "a", "n">>

(* -------------------------- dicts and frames --------------------------- *)

DictKeys(kv) == [i \in 1..Len(kv) |-> kv[i][1]]

DictGet(kv, k, default) ==
    LET i == IndexOf(DictKeys(kv), k) IN IF i = 0 THEN default ELSE kv[i][2]

\* d[k] = v: an existing key keeps its place, a new key goes last
DictPut(kv, k, v) ==
    LET i == IndexOf(DictKeys(kv), k)
    IN IF i = 0 THEN Append(kv, <<k, v>>) ELSE [kv EXCEPT ![i] = <<k, v>>]

RECURSIVE DictUpdate(_, _)
\* for k, v in src.items(): d[k] = v
DictUpdate(kv, src) ==
    IF src = <<>> THEN kv
    ELSE DictUpdate(DictPut(kv, src[1][1], src[1][2]), Tail(src))

RECURSIVE UnionCols(_, _)
\* the keys of the dicts in order of first appearance
UnionCols(dicts, acc) ==
    IF dicts = <<>> THEN acc
    ELSE LET ks == DictKeys(Head(dicts))
             fresh == FilterIdx(ks, [i \in 1..Len(ks) |-> ~InSeq(acc, ks[i])], 1)
         IN UnionCols(Tail(dicts), acc \o fresh)

\* pd.DataFrame(list of dicts): missing keys are NaN
DataFrame(dicts) ==
    LET cols == UnionCols(dicts, <<>>)
    IN [cols |-> cols,
        rows |-> [i \in 1..Len(dicts) |->
                     [j \in 1..Len(cols) |-> DictGet(dicts[i], cols[j], VNaN)]]]

EmptyFrame == [cols |-> <<>>, rows |-> <<>>]

HasCol(df, c) == InSeq(df.cols, c)

\* row[c] for a row of df
Cell(df, row, c) == row[IndexOf(df.cols, c)]

\* df[c] = vals: replaces the column, or adds it as the last one
SetCol(df, c, vals) ==
    LET j == IndexOf(df.cols, c)
    IN IF j = 0
       THEN [cols |-> Append(df.cols, c),
             rows |-> [i \in 1..Len(df.rows) |-> Append(df.rows[i], vals[i])]]
       ELSE [cols |-> df.cols,
             rows |-> [i \in 1..Len(df.rows) |->
                          [df.rows[i] EXCEPT ![j] = vals[i]]]]

FillNaCell(v) == IF IsNa(v) THEN EmptyStr ELSE v

\* df.replace([inf, -inf], nan).fillna("")
FillNa(df) ==
    [cols |-> df.cols,
     rows |-> [i \in 1..Len(df.rows) |->
                  [j \in 1..Len(df.rows[i]) |-> FillNaCell(df.rows[i][j])]]]

(* --------------------------- split_nested_data ------------------------- *)

\* row_series.get("_id", idx) for the i-th row (idx = i - 1)
ParentIdOf(df, i) ==
    IF HasCol(df, N_id) THEN Cell(df, df.rows[i], N_id) ELSE VInt(i - 1)

\* the child row of the element at position k of a list
ItemRow(parent_id, k, item) ==
    IF item.t = "dict"
    THEN DictUpdate(<< <<N_parent_id, parent_id>>, <<N_item_index, VInt(k)>> >>,
                    item.kv)
    ELSE << <<N_parent_id, parent_id>>, <<N_item_index, VInt(k)>>,
            <<N_value, item>> >>

\* the child rows one cell contributes
ValueRows(parent_id, val) ==
    IF val.t = "list"
    THEN [k \in 1..Len(val.xs) |-> ItemRow(parent_id, k - 1, val.xs[k])]
    ELSE IF val.t = "dict"
    THEN << DictUpdate(<< <<N_parent_id, parent_id>> >>, val.kv) >>
    ELSE <<>>

\* rows, after the loop over df[col].items()
ChildRows(df, j) ==
    Concat([i \in 1..Len(df.rows) |->
               ValueRows(ParentIdOf(df, i), df.rows[i][j])])

\* the lambda that rewrites a nested column of the parent table
SerializeCell(v) ==
    IF IsNested(v) THEN VStr(Dumps(v))
    ELSE IF IsNa(v) THEN EmptyStr ELSE v

\* the body of the loop over the columns, for the j-th column
SplitColumn(st, j, parent_name) ==
    LET df == st.df
        col == df.cols[j]
        rows == ChildRows(df, j)
    IN IF ~(\E i \in 1..Len(df.rows) : IsNested(df.rows[i][j])) THEN st
       ELSE [df |-> SetCol(df, col,
                           [i \in 1..Len(df.rows) |->
                               SerializeCell(df.rows[i][j])]),
             subs |-> IF rows # <<>>
                      THEN Append(st.subs,
                                  [name |-> parent_name \o <<"_">> \o col,
                                   df |-> FillNa(DataFrame(rows))])
                      ELSE st.subs]

RECURSIVE SplitFrom(_, _, _)
SplitFrom(st, j, parent_name) ==
    IF j > Len(st.df.cols) THEN st
    ELSE SplitFrom(SplitColumn(st, j, parent_name), j + 1, parent_name)

\* returns [df, subs]: the flat parent table and the child tables in order
split_nested_data(df, parent_name) ==
    SplitFrom([df |-> df, subs |-> <<>>], 1, parent_name)

(* ----------------------- expand_employees_in_subdfs -------------------- *)

IsEmployeeCol(col) ==
    \E k \in 1..Len(employee_keywords) : Contains(col, employee_keywords[k])

\* empleados: the trimmed non-empty pieces of val.split(" ")
Empleados(s) ==
    LET parts == SplitOn(s, " ")
        trimmed == [i \in 1..Len(parts) |-> Strip(parts[i])]
    IN FilterIdx(trimmed, [i \in 1..Len(trimmed) |-> trimmed[i] # <<>>], 1)

\* the rows that replace one row in the pass over column j
ExpandRow(row, j) ==
    LET val == row[j]
    IN IF val.t = "str" /\ HasChar(val.s, " ")
       THEN LET emps == Empleados(val.s)
            IN [k \in 1..Len(emps) |-> [row EXCEPT ![j] = VStr(emps[k])]]
       ELSE <<row>>

\* one pass of the loop over the columns: df_expanded rebuilt from rows
ExpandCol(df, col) ==
    LET j == IndexOf(df.cols, col)
        rows == Concat([i \in 1..Len(df.rows) |-> ExpandRow(df.rows[i], j)])
    IN IF rows = <<>> THEN EmptyFrame ELSE [cols |-> df.cols, rows |-> rows]

RECURSIVE ExpandFrom(_, _, _)
ExpandFrom(acc, cols, j) ==
    IF j > Len(cols) THEN acc
    ELSE ExpandFrom(IF IsEmployeeCol(cols[j]) THEN ExpandCol(acc, cols[j])
                    ELSE acc,
                    cols, j + 1)

\* the expansion of one table: the columns are those of the table as given
ExpandFrame(df) == ExpandFrom(df, df.cols, 1)

expand_employees_in_subdfs(dfs) ==
    [n \in 1..Len(dfs) |-> [name |-> dfs[n].name, df |-> ExpandFrame(dfs[n].df)]]

(* -------------------------------- main --------------------------------- *)

\* df_main["submission_id"] = ...
WithSubmissionId(df) ==
    IF HasCol(df, N_id)
    THEN SetCol(df, N_submission_id,
                [i \in 1..Len(df.rows) |-> Cell(df, df.rows[i], N_id)])
    ELSE SetCol(df, N_submission_id,
                [i \in 1..Len(df.rows) |-> VStr(Digits(i - 1))])

\* dfs before the expansion: Main, then the child tables
FlatTables(results) ==
    LET st == split_nested_data(WithSubmissionId(DataFrame(results)), N_Main)
    IN <<[name |-> N_Main, df |-> st.df]>> \o st.subs

(* ------------------------------- inputs -------------------------------- *)

F_Operarios == K_OperariosCosecha
F_Tiquete == <<"r", "/">> \o K_TiqueteCajon
F_list == <<"g", "/", "F">>
F_dict == <<"G">>
F_a == <<"a">>
F_x == <<"x">>

S_ab == VStr(<<"a", " ", "b">>)
S_c == VStr(<<"c">>)
S_blank == VStr(<<" ">>)
S_tab == VStr(<<"a", "\t", "b">>)

Records ==
    { << <<N_id, VInt(1)>>, <<F_Operarios, S_ab>> >>,
      << <<N_id, VInt(1)>>, <<F_Operarios, S_c>> >>,
      << <<N_id, VInt(2)>>, <<F_Operarios, S_blank>> >>,
      << <<N_id, VInt(2)>>, <<F_Operarios, S_tab>> >>,
      << <<N_id, VInt(3)>>,
         <<F_list, VList(<<VDict(<< <<F_x, VInt(1)>> >>),
                           VDict(<< <<F_Tiquete, S_ab>> >>)>>)>> >>,
      << <<N_id, VInt(3)>>, <<F_list, VList(<<VInt(7)>>)>> >>,
      << <<N_id, VInt(4)>>,
         <<F_list, VList(<<VDict(<< <<F_x, VList(<<VInt(1)>>)>> >>)>>)>> >>,
      << <<N_id, VInt(5)>>,
         <<F_list, VList(<<VDict(<< <<N_parent_id, VInt(9)>> >>)>>)>> >>,
      << <<F_a, VInt(1)>> >>,
      << <<F_dict, VDict(<< <<F_x, VInt(1)>> >>)>> >> }

\* the batches the feed may return: up to MaxBatch records, or none
MaxBatch == 2
\* the runs of main(), and the runs among them that find the feed changed
MaxRuns == 3
MaxFeeds == 2

RECURSIVE SeqsUpTo(_, _)
SeqsUpTo(S, n) ==
    IF n = 0 THEN {<<>>}
    ELSE LET shorter == SeqsUpTo(S, n - 1)
         IN shorter \cup {Append(q, e) : q \in shorter, e \in S}

Batches == SeqsUpTo(Records, MaxBatch)

(* ------------------------------ the store ------------------------------ *)
(* The spreadsheet is a function from worksheet titles to grids; a grid is *)
(* the sequence of the worksheet's filled rows, each a sequence of cells.  *)
(* Cells are read back as they were written.                               *)

RECURSIVE MaxLen(_)
MaxLen(grid) ==
    IF grid = <<>> THEN 0
    ELSE LET m == MaxLen(Tail(grid))
         IN IF Len(Head(grid)) > m THEN Len(Head(grid)) ELSE m

PadRow(row, w) ==
    [j \in 1..w |-> IF j <= Len(row) THEN row[j] ELSE EmptyStr]

\* worksheet.get_all_records(): the first row gives the keys
get_all_records(grid) ==
    IF Len(grid) < 2 THEN <<>>
    ELSE LET w == MaxLen(grid)
             keys == [j \in 1..w |-> PyStr(PadRow(grid[1], w)[j])]
         IN [i \in 1..(Len(grid) - 1) |->
                DictUpdate(<<>>, [j \in 1..w |->
                                     <<keys[j], PadRow(grid[i + 1], w)[j]>>])]

\* the lambda of applymap in upload_to_google_sheets
DumpNested(v) == IF IsNested(v) THEN VStr(Dumps(v)) ELSE v

\* df_clean
CleanFrame(df) ==
    LET filled == FillNa(df)
    IN [cols |-> filled.cols,
        rows |-> [i \in 1..Len(filled.rows) |->
                     [j \in 1..Len(filled.rows[i]) |->
                         DumpNested(filled.rows[i][j])]]]

\* df[c].astype(str)
ColStrs(df, c) == [i \in 1..Len(df.rows) |-> PyStr(Cell(df, df.rows[i], c))]

\* df[["parent_id", "item_index"]].astype(str).agg("_".join, axis=1)
PairStrs(df) ==
    [i \in 1..Len(df.rows) |->
        PyStr(Cell(df, df.rows[i], N_parent_id)) \o <<"_">>
        \o PyStr(Cell(df, df.rows[i], N_item_index))]

Range(f) == {f[i] : i \in DOMAIN f}

\* df_clean[~keys.isin(seen)]
DropSeen(df, keys, seen) ==
    [cols |-> df.cols,
     rows |-> FilterIdx(df.rows,
                        [i \in 1..Len(df.rows) |-> keys[i] \notin Range(seen)],
                        1)]

\* NewRows with child tables compared on parent_id alone
NewRows_ParentOnly(name, df_clean, existing_df) ==
    IF name = N_Main
    THEN IF HasCol(df_clean, N_id) /\ HasCol(existing_df, N_id)
         THEN DropSeen(df_clean, ColStrs(df_clean, N_id),
                       ColStrs(existing_df, N_id))
         ELSE IF HasCol(df_clean, N_submission_id)
                 /\ HasCol(existing_df, N_submission_id)
         THEN DropSeen(df_clean, ColStrs(df_clean, N_submission_id),
                       ColStrs(existing_df, N_submission_id))
         ELSE df_clean
    ELSE IF HasCol(df_clean, N_parent_id) /\ HasCol(existing_df, N_parent_id)
         THEN DropSeen(df_clean, ColStrs(df_clean, N_parent_id),
                       ColStrs(existing_df, N_parent_id))
         ELSE df_clean

\* new_df of a table whose worksheet exists
NewRows(name, df_clean, existing_df) ==
    IF name = N_Main
    THEN IF HasCol(df_clean, N_id) /\ HasCol(existing_df, N_id)
         THEN DropSeen(df_clean, ColStrs(df_clean, N_id),
                       ColStrs(existing_df, N_id))
         ELSE IF HasCol(df_clean, N_submission_id)
                 /\ HasCol(existing_df, N_submission_id)
         THEN DropSeen(df_clean, ColStrs(df_clean, N_submission_id),
                       ColStrs(existing_df, N_submission_id))
         ELSE df_clean
    ELSE IF HasCol(df_clean, N_parent_id) /\ HasCol(existing_df, N_parent_id)
         THEN IF HasCol(df_clean, N_item_index)
                 /\ HasCol(existing_df, N_item_index)
              THEN DropSeen(df_clean, PairStrs(df_clean), PairStrs(existing_df))
              ELSE DropSeen(df_clean, ColStrs(df_clean, N_parent_id),
                            ColStrs(existing_df, N_parent_id))
         ELSE df_clean

\* new_df.empty
IsEmptyFrame(df) == df.rows = <<>> \/ df.cols = <<>>

(* ------------------------------- state --------------------------------- *)

VARIABLES
    pc,         \* where main() is
    runs,       \* runs of main() started so far
    feeds,      \* runs that found another batch than the run before
    results,    \* the batch of the current run
    flat,       \* dfs before expand_employees_in_subdfs
    dfs,        \* dfs after it: a sequence of [name, df]
    export,     \* the sheets written to the local file: [sheet, df]
    store,      \* the spreadsheet: worksheet title -> grid
    ti,         \* the position in dfs of the table being uploaded
    new_df,     \* new_df of that table
    log,        \* the store operations of the current run, in order
    store0,     \* the spreadsheet when the current run started
    prev        \* [results, ok] of the run before the current one

vars == <<pc, runs, feeds, results, flat, dfs, export, store, ti, new_df, log,
          store0, prev>>

NoPrev == [results |-> <<>>, ok |-> FALSE]

Init ==
    /\ pc = "idle"
    /\ runs = 0
    /\ feeds = 0
    /\ results = <<>>
    /\ flat = <<>>
    /\ dfs = <<>>
    /\ export = <<>>
    /\ store = <<>>
    /\ ti = 0
    /\ new_df = EmptyFrame
    /\ log = <<>>
    /\ store0 = <<>>
    /\ prev = NoPrev

Name == dfs[ti].name
SheetName == sanitize_sheet_name(Name, SheetsMaxLen)
DfClean == CleanFrame(dfs[ti].df)

\* some cell of some table is a list or a dict
HasNestedCell(df) ==
    \E i \in 1..Len(df.rows) : \E j \in 1..Len(df.rows[i]) :
        IsNested(df.rows[i][j])

\* main() starts: get_all_submissions returns a batch, the one of the run
\* before when the feed has not changed. The history ends with a run that
\* an exception ended.
Fetch ==
    /\ pc \in {"idle", "done"}
    /\ runs < MaxRuns
    /\ \/ /\ feeds < MaxFeeds
          /\ \E b \in Batches : results' = b
          /\ feeds' = feeds + 1
       \/ /\ runs > 0
          /\ results' = results
          /\ feeds' = feeds
    /\ prev' = [results |-> results, ok |-> pc = "done"]
    /\ runs' = runs + 1
    /\ pc' = "fetched"
    /\ flat' = <<>>
    /\ dfs' = <<>>
    /\ ti' = 0
    /\ new_df' = EmptyFrame
    /\ log' = <<>>
    /\ store0' = store
    /\ UNCHANGED <<export, store>>

\* if not results: return
NoRecords ==
    /\ pc = "fetched"
    /\ results = <<>>
    /\ pc' = "done"
    /\ UNCHANGED <<runs, feeds, results, flat, dfs, export, store, ti, new_df, log,
                   store0, prev>>

\* df_main, submission_id, split_nested_data, dfs.update
Flatten ==
    /\ pc = "fetched"
    /\ results # <<>>
    /\ flat' = FlatTables(results)
    /\ pc' = "flattened"
    /\ UNCHANGED <<runs, feeds, results, dfs, export, store, ti, new_df, log,
                   store0, prev>>

Expand ==
    /\ pc = "flattened"
    /\ dfs' = expand_employees_in_subdfs(flat)
    /\ pc' = "expanded"
    /\ UNCHANGED <<runs, feeds, results, flat, export, store, ti, new_df, log,
                   store0, prev>>

\* the sheets to_excel is asked to write, in order
ExcelSheets(tables) ==
    [n \in 1..Len(tables) |->
        [sheet |-> sanitize_sheet_name(tables[n].name, ExcelMaxLen),
         df |-> tables[n].df]]

\* save_to_excel handed the tables as they were before the expansion
save_to_excel_unexpanded ==
    /\ pc = "expanded"
    /\ export' = ExcelSheets(flat)
    /\ pc' = "lookup"
    /\ ti' = 1
    /\ UNCHANGED <<runs, feeds, results, flat, dfs, store, new_df, log,
                   store0, prev>>

\* save_to_excel writes every table
save_to_excel ==
    /\ pc = "expanded"
    /\ export' = ExcelSheets(dfs)
    /\ pc' = "lookup"
    /\ ti' = 1
    /\ UNCHANGED <<runs, feeds, results, flat, dfs, store, new_df, log, store0, prev>>

\* to_excel raises on a cell that holds a list or a dict: the sheets before
\* that table are in the file, the exception leaves main()
save_to_excel_raises ==
    /\ pc = "expanded"
    /\ \E n \in 1..Len(dfs) :
          /\ HasNestedCell(dfs[n].df)
          /\ \A m \in 1..(n - 1) : ~HasNestedCell(dfs[m].df)
          /\ export' = SubSeq(ExcelSheets(dfs), 1, n - 1)
    /\ pc' = "crashed"
    /\ UNCHANGED <<runs, feeds, results, flat, dfs, store, ti, new_df, log,
                   store0, prev>>

\* spreadsheet.worksheet(sheet_name) finds the worksheet: read and diff
worksheet_found ==
    /\ pc = "lookup"
    /\ SheetName \in DOMAIN store
    /\ LET grid == store[SheetName]
           existing_df == DataFrame(get_all_records(grid))
       IN /\ new_df' = NewRows(Name, DfClean, existing_df)
          /\ log' = Append(log, [op |-> "read", t |-> ti, grid |-> grid])
    /\ pc' = "append"
    /\ UNCHANGED <<runs, feeds, results, flat, dfs, export, store, ti, store0, prev>>

\* spreadsheet.worksheet(sheet_name) raises WorksheetNotFound
worksheet_not_found ==
    /\ pc = "lookup"
    /\ SheetName \notin DOMAIN store
    /\ log' = Append(log, [op |-> "notfound", t |-> ti])
    /\ pc' = "create"
    /\ UNCHANGED <<runs, feeds, results, flat, dfs, export, store, ti, new_df,
                   store0, prev>>

\* spreadsheet.add_worksheet(...)
add_worksheet ==
    /\ pc = "create"
    /\ store' = (SheetName :> <<>>) @@ store
    /\ log' = Append(log, [op |-> "add", t |-> ti])
    /\ pc' = "header"
    /\ UNCHANGED <<runs, feeds, results, flat, dfs, export, ti, new_df, store0, prev>>

\* update_header without the assignment new_df = df_clean: new_df is the one
\* of the table before
update_header_stale_rows ==
    /\ pc = "header"
    /\ LET header == [j \in 1..Len(DfClean.cols) |-> VStr(DfClean.cols[j])]
       IN /\ store' = [store EXCEPT ![SheetName] =
                          IF header = <<>> THEN @ ELSE <<header>>]
          /\ log' = Append(log, [op |-> "update", t |-> ti, header |-> header])
    /\ pc' = "append"
    /\ UNCHANGED <<runs, feeds, results, flat, dfs, export, ti, new_df,
                   store0, prev>>

\* worksheet.update([columns]); new_df = df_clean
update_header ==
    /\ pc = "header"
    /\ LET header == [j \in 1..Len(DfClean.cols) |-> VStr(DfClean.cols[j])]
       IN /\ store' = [store EXCEPT ![SheetName] =
                          IF header = <<>> THEN @ ELSE <<header>>]
          /\ log' = Append(log, [op |-> "update", t |-> ti, header |-> header])
    /\ new_df' = DfClean
    /\ pc' = "append"
    /\ UNCHANGED <<runs, feeds, results, flat, dfs, export, ti, store0, prev>>

\* the end of the loop body: the next table, or the end of main()
NextTable ==
    /\ ti' = IF ti < Len(dfs) THEN ti + 1 ELSE ti
    /\ pc' = IF ti < Len(dfs) THEN "lookup" ELSE "done"

\* worksheet.append_rows(new_df.values.tolist())
append_rows ==
    /\ pc = "append"
    /\ ~IsEmptyFrame(new_df)
    /\ store' = [store EXCEPT ![SheetName] = @ \o new_df.rows]
    /\ log' = Append(log, [op |-> "append", t |-> ti, rows |-> new_df.rows])
    /\ NextTable
    /\ UNCHANGED <<runs, feeds, results, flat, dfs, export, new_df, store0, prev>>

\* new_df.empty: nothing is appended
no_new_rows ==
    /\ pc = "append"
    /\ IsEmptyFrame(new_df)
    /\ log' = Append(log, [op |-> "noop", t |-> ti])
    /\ NextTable
    /\ UNCHANGED <<runs, feeds, results, flat, dfs, export, store, new_df,
                   store0, prev>>

\* a store call raises (any error but WorksheetNotFound on the lookup): no
\* handler catches it, the exception leaves upload_to_google_sheets and main()
store_error ==
    /\ \/ pc \in {"lookup", "create", "header"}
       \/ pc = "append" /\ ~IsEmptyFrame(new_df)
    /\ log' = Append(log, [op |-> "error", t |-> ti, at |-> pc])
    /\ pc' = "crashed"
    /\ UNCHANGED <<runs, feeds, results, flat, dfs, export, store, ti, new_df,
                   store0, prev>>

Next ==
    \/ Fetch
    \/ NoRecords
    \/ Flatten
    \/ Expand
    \/ save_to_excel
    \/ save_to_excel_raises
    \/ worksheet_found
    \/ worksheet_not_found
    \/ add_worksheet
    \/ update_header
    \/ append_rows
    \/ no_new_rows
    \/ store_error

Spec == Init /\ [][Next]_vars

(* ------------------------- reading the log ----------------------------- *)

Entries(op, t) == {k \in 1..Len(log) : log[k].op = op /\ log[k].t = t}
Logged(op, t) == Entries(op, t) # {}
Entry(op, t) == log[CHOOSE k \in Entries(op, t) : TRUE]

\* the table at position t has reached the end of the loop body
Synced(t) == Logged("append", t) \/ Logged("noop", t)

AppendedRows(t) == IF Logged("append", t) THEN Entry("append", t).rows ELSE <<>>

\* the rows the store held for table t when it was read, as records
Persisted(t) ==
    IF Logged("read", t) THEN get_all_records(Entry("read", t).grid) ELSE <<>>

PersistedCols(t) == IF Persisted(t) = <<>> THEN <<>> ELSE DictKeys(Persisted(t)[1])

\* the key columns of a table, given the columns of the computed table and
\* of the persisted one
KeyCols(name, newcols, oldcols) ==
    LET both(c) == InSeq(newcols, c) /\ InSeq(oldcols, c)
    IN IF name = N_Main
       THEN IF both(N_id) THEN <<N_id>>
            ELSE IF both(N_submission_id) THEN <<N_submission_id>> ELSE <<>>
       ELSE IF both(N_parent_id)
            THEN IF both(N_item_index) THEN <<N_parent_id, N_item_index>>
                 ELSE <<N_parent_id>>
            ELSE <<>>

\* a key compared as a string: the key fields, each cast to a string, joined
\* by "_"
RowKey(cols, row, keycols) ==
    Join([k \in 1..Len(keycols) |-> PyStr(row[IndexOf(cols, keycols[k])])],
         <<"_">>)

RecKey(rec, keycols) ==
    Join([k \in 1..Len(keycols) |-> PyStr(DictGet(rec, keycols[k], EmptyStr))],
         <<"_">>)

PairwiseDistinct(q) ==
    \A i \in 1..Len(q) : \A j \in 1..Len(q) : i # j => q[i] # q[j]

Tables == 1..Len(dfs)

(* ------------------------------- C2 ------------------------------------ *)

\* the rows of the computed table whose key no persisted row has
UnseenRows(t) ==
    LET df == CleanFrame(dfs[t].df)
        recs == Persisted(t)
        kc == KeyCols(dfs[t].name, df.cols, PersistedCols(t))
        seen == {RecKey(recs[i], kc) : i \in 1..Len(recs)}
    IN IF kc = <<>> THEN df.rows
       ELSE FilterIdx(df.rows,
                      [i \in 1..Len(df.rows) |->
                          RowKey(df.cols, df.rows[i], kc) \notin seen],
                      1)

\* C2: for every table whose worksheet exists, the rows appended are exactly,
\* in order, the rows of the computed table whose key, compared as a string,
\* is the key of no persisted row (the key being _id, else submission_id, for
\* Main, and parent_id with item_index, else parent_id alone, for a child
\* table); a row whose key is persisted is never appended, whatever its
\* other fields.
C2_AppendsExactlyUnseenKeys ==
    \A t \in Tables :
        Logged("read", t) /\ Synced(t) => AppendedRows(t) = UnseenRows(t)

\* a table was read, one of its rows has a persisted key but is equal to no
\* row of the grid and was dropped, and another of its rows was appended
C2_Witness ==
    \E t \in Tables :
        /\ Logged("read", t)
        /\ Logged("append", t)
        /\ LET df == CleanFrame(dfs[t].df)
               grid == Entry("read", t).grid
           IN \E i \in 1..Len(df.rows) :
                 /\ \A g \in 1..Len(grid) : grid[g] # df.rows[i]
                 /\ \A a \in 1..Len(AppendedRows(t)) :
                       AppendedRows(t)[a] # df.rows[i]

(* ------------------------------- C5 ------------------------------------ *)

\* C5: for every table whose worksheet is not found, the worksheet is created
\* first, then the computed table's column header is written, and only then
\* rows are appended; the rows appended are all rows of the computed table,
\* in order.
C5_CreateHeaderThenAllRows ==
    \A t \in Tables :
        Logged("notfound", t) =>
            /\ \A u \in Entries("update", t) :
                  /\ \E a \in Entries("add", t) : a < u
                  /\ log[u].header =
                        [j \in 1..Len(dfs[t].df.cols) |-> VStr(dfs[t].df.cols[j])]
            /\ \A k \in Entries("append", t) :
                  /\ \E u \in Entries("update", t) : u < k
                  /\ log[k].rows = CleanFrame(dfs[t].df).rows
            /\ Synced(t) /\ dfs[t].df.rows # <<>> => Logged("append", t)

\* a table that was not found has been created, given its header and rows
C5_Witness ==
    \E t \in Tables :
        /\ Logged("notfound", t)
        /\ Logged("append", t)
        /\ Len(AppendedRows(t)) >= 2
        /\ t >= 2

(* ------------------------------- C8 ------------------------------------ *)

UploadPcs == {"lookup", "create", "header", "append"}

\* C8: in a run with a non-empty batch, once the upload has begun (and in
\* every later state of the run, a store failure included) the local export
\* holds every table of the expanded table set with every row, no diff
\* applied; no store operation is issued before it is written.
C8_ExportBeforeStore ==
    /\ log # <<>> \/ pc \in UploadPcs \/ (pc = "done" /\ results # <<>>) =>
          /\ Len(export) = Len(dfs)
          /\ \A n \in 1..Len(dfs) :
                /\ export[n].df = dfs[n].df
                /\ export[n].sheet =
                      sanitize_sheet_name(dfs[n].name, ExcelMaxLen)
    /\ pc \in {"fetched", "flattened", "expanded"} => log = <<>> /\ store = store0

\* a store call failed after the diff dropped rows of a table and the rest
\* of its rows were appended; the export holds the expanded tables
C8_Witness ==
    /\ pc = "crashed"
    /\ \E u \in Tables : Logged("error", u)
    /\ \E t \in Tables :
          /\ Logged("read", t)
          /\ Logged("append", t)
          /\ Len(AppendedRows(t)) < Len(dfs[t].df.rows)
    /\ Len(export) = Len(dfs)
    /\ \E n \in 1..Len(dfs) : dfs[n].df # flat[n].df

(* ------------------------------- C1 ------------------------------------ *)

\* C1: when a run has completed without a store error and the next run is
\* made on the same batch, the second run appends no row to any table and
\* leaves the store as the first run left it.
C1_SecondRunAppendsNothing ==
    pc = "done" /\ prev.ok /\ runs >= 2 /\ prev.results = results =>
        /\ store = store0
        /\ \A t \in Tables : ~Logged("append", t)

(* ------------------------------- C3 ------------------------------------ *)

\* the keys of the persisted rows of table t followed by those of the rows
\* appended to it in this run
KeysAfterSync(t) ==
    LET df == CleanFrame(dfs[t].df)
        recs == Persisted(t)
        kc == KeyCols(dfs[t].name, df.cols,
                      IF Logged("read", t) THEN PersistedCols(t) ELSE df.cols)
        rows == AppendedRows(t)
    IN [before |-> [i \in 1..Len(recs) |-> RecKey(recs[i], kc)],
        added |-> [i \in 1..Len(rows) |-> RowKey(df.cols, rows[i], kc)],
        keyed |-> kc # <<>>]

\* C3: after a table has been processed, if its persisted rows had pairwise
\* distinct keys (or the worksheet did not exist), the persisted rows together
\* with the rows appended in this run contain no two rows with the same key.
C3_NoDuplicateKeyAfterSync ==
    \A t \in Tables :
        Synced(t) =>
            LET k == KeysAfterSync(t)
            IN k.keyed /\ PairwiseDistinct(k.before) =>
                   PairwiseDistinct(k.before \o k.added)

(* ------------------------------- C4 ------------------------------------ *)

\* the run is over: main() returned or an exception left it
RunEnded == pc \in {"done", "crashed"}

\* C4: when a store operation of one table fails, only that table's sync is
\* aborted: by the end of the run every later table has been looked up and
\* has reached its own outcome.
C4_FailureDoesNotBlockLaterTables ==
    RunEnded =>
        \A t \in Tables :
            Logged("error", t) =>
                \A u \in Tables :
                    u > t => Synced(u) \/ Logged("error", u)

(* ------------------------------- C6 ------------------------------------ *)

\* C6: in every table of the table set main() builds, as written to the local
\* export and as appended to the store, every field value is a scalar, never
\* a list or an object.
C6_OnlyScalarsInTables ==
    /\ \A n \in 1..Len(dfs) : ~HasNestedCell(dfs[n].df)
    /\ \A n \in 1..Len(export) : ~HasNestedCell(export[n].df)
    /\ \A k \in 1..Len(log) :
          log[k].op = "append" =>
              \A i \in 1..Len(log[k].rows) : \A j \in 1..Len(log[k].rows[i]) :
                  ~IsNested(log[k].rows[i][j])

(* ---------------------------- C7 and C9 -------------------------------- *)

RECURSIVE WsTokens(_)
\* the non-empty tokens of s, separated by whitespace
WsTokens(s) ==
    LET t == LStrip(s)
    IN IF t = <<>> THEN <<>>
       ELSE LET n == IF \E i \in 1..Len(t) : t[i] \in Whitespace
                     THEN (CHOOSE i \in 1..Len(t) :
                              t[i] \in Whitespace
                              /\ \A m \in 1..(i - 1) : t[m] \notin Whitespace) - 1
                     ELSE Len(t)
            IN <<SubSeq(t, 1, n)>> \o WsTokens(SubSeq(t, n + 1, Len(t)))

TokenCount(v) == IF v.t = "str" THEN Len(WsTokens(v.s)) ELSE 0

EmployeeCols(df) ==
    {j \in 1..Len(df.cols) : IsEmployeeCol(df.cols[j])}

\* one copy of the row per token, the j-th field holding the token
TokenCopies(row, j) ==
    LET toks == WsTokens(row[j].s)
    IN [k \in 1..Len(toks) |-> [row EXCEPT ![j] = VStr(toks[k])]]

\* the tables with one multi-value column, where the expansion is one pass
OnePass == {n \in 1..Len(flat) : Cardinality(EmployeeCols(flat[n].df)) = 1}

TheEmployeeCol(n) == CHOOSE j \in EmployeeCols(flat[n].df) : TRUE

Expanded == pc \notin {"idle", "fetched", "flattened"} /\ results # <<>>

\* C7: each row whose value in a multi-value column is a string of k >= 2
\* non-empty whitespace-separated tokens is replaced by exactly k consecutive
\* rows, in token order, the i-th holding the i-th token and every other
\* field of the original row; the other rows keep their relative place.
C7_OneRowPerToken ==
    Expanded =>
        \A n \in OnePass :
            LET j == TheEmployeeCol(n)
                rows == flat[n].df.rows
            IN dfs[n].df.rows =
                   Concat([i \in 1..Len(rows) |->
                              IF TokenCount(rows[i][j]) >= 2
                              THEN TokenCopies(rows[i], j)
                              ELSE ExpandRow(rows[i], j)])

\* C9: a row whose value in a multi-value column is not a string, or holds
\* zero or one token, comes out as exactly one row equal to the input row;
\* the expansion never removes a row.
C9_OtherRowsUnchanged ==
    Expanded =>
        /\ \A n \in OnePass :
              LET j == TheEmployeeCol(n)
                  rows == flat[n].df.rows
              IN dfs[n].df.rows =
                     Concat([i \in 1..Len(rows) |->
                                IF TokenCount(rows[i][j]) <= 1
                                THEN <<rows[i]>>
                                ELSE ExpandRow(rows[i], j)])
        /\ \A n \in 1..Len(flat) :
              Len(dfs[n].df.rows) >= Len(flat[n].df.rows)

(* ------------------------------- C10 ----------------------------------- *)

\* the identifier of the i-th record: _id, else its ordinal
RecordId(i) == DictGet(results[i], N_id, VInt(i - 1))

\* <<parent_id, item_index>> of the child rows a record's value must give;
\* an object has no item_index
ChildKeysOf(i, val) ==
    IF val.t = "list"
    THEN [k \in 1..Len(val.xs) |-> <<RecordId(i), VInt(k - 1)>>]
    ELSE IF val.t = "dict" THEN << <<RecordId(i)>> >>
    ELSE <<>>

NestedFields ==
    {f \in Range(UnionCols(results, <<>>)) :
        \E i \in 1..Len(results) : IsNested(DictGet(results[i], f, VNaN))}

ChildTable(f) ==
    LET name == N_Main \o <<"_">> \o f
    IN IF \E n \in 1..Len(flat) : flat[n].name = name
       THEN flat[CHOOSE n \in 1..Len(flat) : flat[n].name = name].df
       ELSE EmptyFrame

\* C10: the child table of a nested field holds one row per element of every
\* list value and one row per object value, in record order and then element
\* order, with parent_id the record's identifier and, for list elements,
\* item_index the element's position, whatever keys the element carries.
C10_ChildRowsKeyedByParent ==
    pc = "flattened" =>
        \A f \in NestedFields :
            LET df == ChildTable(f)
                want == Concat([i \in 1..Len(results) |->
                                   ChildKeysOf(i, DictGet(results[i], f, VNaN))])
            IN /\ Len(df.rows) = Len(want)
               /\ \A r \in 1..Len(want) :
                     /\ Cell(df, df.rows[r], N_parent_id) = want[r][1]
                     /\ Len(want[r]) = 2 =>
                           Cell(df, df.rows[r], N_item_index) = want[r][2]

====
